---- MODULE Spec2Model ----
(***************************************************************************)
(* Model of src/app.py: the POST /analyze handler (analyze_content), the   *)
(* summarizer client (summarize_text), the retry-bounded search client     *)
(* (search_alternative_sources) and the text normalizer (preprocess_text). *)
(* Text is a sequence of characters; JSON values are records [t, v] whose  *)
(* tag t gives the JSON type; a JSON object is the ordered sequence of its *)
(* <<key, value>> pairs (Python dicts keep insertion order).               *)
(***************************************************************************)
EXTENDS Integers, Sequences, FiniteSets, TLC

\* ---------------------------------------------------------------- bounds
MaxRetryLimit == 3      \* largest search_retry_limit the configuration may hold
MaxResults == 2         \* longest result list a search response carries
MaxLen == 2             \* longest content text of a request body

\* ------------------------------------------------------- text and JSON
Chars == {" ", "a"}
Whitespace == {" "}

SeqsUpTo(S, n) == UNION {[1..k -> S] : k \in 0..n}

Texts == SeqsUpTo(Chars, MaxLen)

JNull == [t |-> "null", v |-> 0]
JBool(b) == [t |-> "bool", v |-> b]
JNum(n) == [t |-> "num", v |-> n]
JStr(s) == [t |-> "str", v |-> s]
JList(l) == [t |-> "list", v |-> l]
JObj(pairs) == [t |-> "obj", v |-> pairs]

\* dict.get(key, default) on an ordered sequence of <<key, value>> pairs
RECURSIVE DictGet(_, _, _)
DictGet(pairs, key, default) ==
    IF pairs = <<>> THEN default
    ELSE IF Head(pairs)[1] = key THEN Head(pairs)[2]
    ELSE DictGet(Tail(pairs), key, default)

\* Python truthiness of a parsed JSON value, as tested by "if not data"
Truthy(j) ==
    CASE j.t = "null" -> FALSE
      [] j.t = "bool" -> j.v
      [] j.t = "num"  -> j.v # 0
      [] j.t = "str"  -> Len(j.v) > 0
      [] j.t = "list" -> Len(j.v) > 0
      [] j.t = "obj"  -> Len(j.v) > 0

\* str.strip(): drop leading, then trailing, whitespace
RECURSIVE LStrip(_)
LStrip(s) ==
    IF s # <<>> /\ Head(s) \in Whitespace THEN LStrip(Tail(s)) ELSE s

RECURSIVE RStrip(_)
RStrip(s) ==
    IF s # <<>> /\ s[Len(s)] \in Whitespace
    THEN RStrip(SubSeq(s, 1, Len(s) - 1)) ELSE s

Strip(s) == RStrip(LStrip(s))

\* Variant: the content is passed on untrimmed
preprocess_text_NoStrip(text) == text

preprocess_text(text) == Strip(text)

\* --------------------------------------------------------- request bodies
\* Values the "content" field may hold (a text, or a JSON value of another type)
ContentValues ==
    {JStr(s) : s \in Texts} \cup {JNull, JNum(5), JList(<<>>)}

\* Values the "metadata" field may hold
MetadataValues ==
    { JNull, JList(<<JNum(1)>>), JStr(<<"a">>), JNum(7),
      JObj(<<>>), JObj(<< <<"k", JStr(<<"a">>)>> >>) }

ContentPairs == {<<>>} \cup { << <<"content", c>> >> : c \in ContentValues }
MetadataPairs == {<<>>} \cup { << <<"metadata", m>> >> : m \in MetadataValues }

JsonObjects == { JObj(c \o m) : c \in ContentPairs, m \in MetadataPairs }

JsonNonObjects ==
    { JNull, JBool(FALSE), JBool(TRUE), JNum(0), JNum(5),
      JStr(<<>>), JStr(<<"a">>), JList(<<>>), JList(<<JNum(1)>>) }

\* A request: kind "json" carries a parsed value; kind "badjson" is a JSON
\* content type with an unparseable payload; kind "nomime" has no JSON
\* content type.
Requests ==
    { [kind |-> "json", value |-> j] : j \in JsonObjects \cup JsonNonObjects }
    \cup { [kind |-> "badjson", value |-> JNull],
           [kind |-> "nomime", value |-> JNull] }

NoRequest == [kind |-> "none", value |-> JNull]

\* ------------------------------------------------------------ responses
InvalidJsonMsg == "Invalid or missing JSON body"
NoContentMsg == "No content provided"
SummarizeFailedMsg == "Failed to summarize content"
UnexpectedMsg == "An unexpected error occurred"

NoResponse ==
    [status |-> 0, error |-> "", summary |-> <<>>, metadata |-> JNull,
     alternative_sources |-> <<>>]

\* jsonify({'error': msg}), status
ErrorResponse(status, msg) ==
    [status |-> status, error |-> msg, summary |-> <<>>, metadata |-> JNull,
     alternative_sources |-> <<>>]

\* jsonify({'summary': ..., 'metadata': ..., 'alternative_sources': ...})
OkResponse(sum, md, srcs) ==
    [status |-> 200, error |-> "", summary |-> sum, metadata |-> md,
     alternative_sources |-> srcs]

\* ------------------------------------------------------------ get_json
\* request.get_json(): the parsed value, None, or an HTTP exception.  A
\* request without a JSON content type yields None or raises, depending on
\* the installed framework version; an unparseable JSON payload raises.
GetJsonOutcomes(req) ==
    CASE req.kind = "json" ->
           {[raises |-> FALSE, exc |-> "none", data |-> req.value]}
      [] req.kind = "badjson" ->
           {[raises |-> TRUE, exc |-> "BadRequest", data |-> JNull]}
      [] req.kind = "nomime" ->
           {[raises |-> FALSE, exc |-> "none", data |-> JNull],
            [raises |-> TRUE, exc |-> "UnsupportedMediaType", data |-> JNull]}

\* Exception classes raised outside the two inner try blocks
ExceptionClasses == {"BadRequest", "UnsupportedMediaType", "AttributeError"}

\* Variant: the outermost clause names only the HTTP exceptions
OuterCatches_Narrow(exc) == exc \in {"BadRequest", "UnsupportedMediaType"}

\* "except Exception" of the outermost try: catches every Exception subclass
OuterCatches(exc) == exc \in ExceptionClasses

\* Variant: the outermost clause answers with the text of the exception
OuterExcept_LeaksException(exc) == ErrorResponse(500, exc)

\* The body of the outermost except clause
OuterExcept(exc) == ErrorResponse(500, UnexpectedMsg)

\* Only a dict has .get; only a str has .strip
HasGet(j) == j.t = "obj"
HasStrip(j) == j.t = "str"

\* Variant: metadata passed through without the isinstance test
SanitizeMetadata_Identity(md) == md

\* "if not isinstance(metadata, dict): metadata = {}"
SanitizeMetadata(md) == IF md.t = "obj" THEN md ELSE JObj(<<>>)

\* ---------------------------------------------------------- summarizer
LlmTexts == { <<>>, <<" ">>, <<"a">>, <<" ", "a", " ">>, <<"a", " ", "a">> }

\* What the LLM call yields: an API error, a response of the wrong shape,
\* or a response carrying a text
LlmOutcomes ==
    { [kind |-> "apierror", text |-> <<>>], [kind |-> "malformed", text |-> <<>>] }
    \cup { [kind |-> "text", text |-> s] : s \in LlmTexts }

\* Variant: the empty-summary test is missing
summarize_text_NoEmptyCheck(o) ==
    IF o.kind # "text" THEN [ok |-> FALSE, summary |-> <<>>]
    ELSE [ok |-> TRUE, summary |-> Strip(o.text)]

\* Variant: the model output is returned untrimmed
summarize_text_NoStrip(o) ==
    IF o.kind # "text" THEN [ok |-> FALSE, summary |-> <<>>]
    ELSE IF Strip(o.text) = <<>> THEN [ok |-> FALSE, summary |-> <<>>]
    ELSE [ok |-> TRUE, summary |-> o.text]

\* summarize_text: ok = FALSE stands for the re-raised exception
summarize_text(o) ==
    IF o.kind # "text" THEN [ok |-> FALSE, summary |-> <<>>]
    ELSE LET s == Strip(o.text) IN
         IF s = <<>> THEN [ok |-> FALSE, summary |-> <<>>]
         ELSE [ok |-> TRUE, summary |-> s]

\* -------------------------------------------------------------- search
None == "None"

\* Items of a provider result list (a missing key reads as None)
ResultItems ==
    { [name |-> "t1", url |-> "u1", snippet |-> "s1"],
      [name |-> "t2", url |-> "u1", snippet |-> "s2"],
      [name |-> "t3", url |-> None, snippet |-> None] }

ResultLists == SeqsUpTo(ResultItems, MaxResults)

\* Parsed payloads of a successful search response
SearchPayloads ==
    { [hasWebPages |-> FALSE, value |-> <<>>] }
    \cup { [hasWebPages |-> TRUE, value |-> l] : l \in ResultLists }

NoPayload == [hasWebPages |-> FALSE, value |-> <<>>]

\* search_results.get("webPages", {}).get("value", [])
ResultList(payload) == IF payload.hasWebPages THEN payload.value ELSE <<>>

\* The list comprehension building links
Links(results) ==
    [i \in 1..Len(results) |->
        [title |-> results[i].name, url |-> results[i].url,
         snippet |-> results[i].snippet]]

\* dict[key] = value on an ordered dict: an existing key keeps its position
\* and takes the new value, a new key is appended
DictSet(pairs, key, value) ==
    IF \E i \in 1..Len(pairs) : pairs[i][1] = key
    THEN [i \in 1..Len(pairs) |->
            IF pairs[i][1] = key THEN <<key, value>> ELSE pairs[i]]
    ELSE Append(pairs, <<key, value>>)

\* {link['url']: link for link in links}
RECURSIVE UrlDict(_, _)
UrlDict(links, acc) ==
    IF links = <<>> THEN acc
    ELSE UrlDict(Tail(links), DictSet(acc, Head(links).url, Head(links)))

\* Variant: the links returned without deduplication
unique_links_NoDedup(links) == links

\* list({...}.values())
unique_links(links) ==
    LET d == UrlDict(links, <<>>) IN [i \in 1..Len(d) |-> d[i][2]]

\* Variant: the limit test is off by one
RetryLimitReached_OffByOne(rc, limit) == rc > limit

\* "if retry_count >= SEARCH_RETRY_LIMIT"
RetryLimitReached(rc, limit) == rc >= limit

\* --------------------------------------------------------------- state
VARIABLES
    SEARCH_RETRY_LIMIT,   \* configuration value, read at process start
    pc,                   \* state of the request being handled
    request,              \* the request being handled
    text,                 \* normalized content
    metadata,             \* data.get('metadata', {})
    llmCalls,             \* outbound LLM calls issued for this request
    llmOutcome,           \* what the LLM call of this request yielded
    summary,              \* summary returned by summarize_text
    retry_count,          \* retry_count of the current search invocation
    searchLog,            \* queries of the search requests issued, in order
    searchOutcome,        \* how search_alternative_sources ended
    payload,              \* payload of the successful search response
    alternative_sources,  \* the handler's alternative_sources
    raised,               \* exception raised outside the inner try blocks
    escaped,              \* an exception left the handler
    nResponses,           \* responses returned for this request
    response,             \* the response returned
    prevExhausted         \* history: the previous request exhausted its retries

vars ==
    << SEARCH_RETRY_LIMIT, pc, request, text, metadata, llmCalls, llmOutcome,
       summary, retry_count, searchLog, searchOutcome, payload,
       alternative_sources, raised, escaped, nResponses, response,
       prevExhausted >>

reqVars ==
    << text, metadata, llmCalls, llmOutcome, summary, retry_count, searchLog,
       searchOutcome, payload, alternative_sources >>

NoLlmOutcome == [kind |-> "none", text |-> <<>>]

Terminal == {"Responded", "Failed"}

\* The locals of one call of the handler, as they are before the call
ResetRequestState ==
    /\ text' = <<>>
    /\ metadata' = JNull
    /\ llmCalls' = 0
    /\ llmOutcome' = NoLlmOutcome
    /\ summary' = <<>>
    /\ retry_count' = 0
    /\ searchLog' = <<>>
    /\ searchOutcome' = "none"
    /\ payload' = NoPayload
    /\ alternative_sources' = <<>>
    /\ raised' = "none"
    /\ escaped' = FALSE
    /\ nResponses' = 0
    /\ response' = NoResponse

Init ==
    /\ SEARCH_RETRY_LIMIT \in 0..MaxRetryLimit
    /\ pc = "Idle"
    /\ request = NoRequest
    /\ text = <<>>
    /\ metadata = JNull
    /\ llmCalls = 0
    /\ llmOutcome = NoLlmOutcome
    /\ summary = <<>>
    /\ retry_count = 0
    /\ searchLog = <<>>
    /\ searchOutcome = "none"
    /\ payload = NoPayload
    /\ alternative_sources = <<>>
    /\ raised = "none"
    /\ escaped = FALSE
    /\ nResponses = 0
    /\ response = NoResponse
    /\ prevExhausted = FALSE

\* A POST /analyze request arrives at the idle handler
Receive(req) ==
    /\ pc = "Idle"
    /\ pc' = "Received"
    /\ request' = req
    /\ UNCHANGED << SEARCH_RETRY_LIMIT, prevExhausted, raised, escaped, nResponses, response >>
    /\ UNCHANGED reqVars

\* Variant: the retry count is kept in a process-wide counter that outlives
\* the request
Done_KeepsRetryCount ==
    /\ pc \in Terminal
    /\ pc' = "Idle"
    /\ request' = NoRequest
    /\ text' = <<>>
    /\ metadata' = JNull
    /\ llmCalls' = 0
    /\ llmOutcome' = NoLlmOutcome
    /\ summary' = <<>>
    /\ searchLog' = <<>>
    /\ searchOutcome' = "none"
    /\ payload' = NoPayload
    /\ alternative_sources' = <<>>
    /\ raised' = "none"
    /\ escaped' = FALSE
    /\ nResponses' = 0
    /\ response' = NoResponse
    /\ prevExhausted' = (searchOutcome = "limit")
    /\ UNCHANGED << SEARCH_RETRY_LIMIT, retry_count >>

\* The handler has returned: its locals are gone, the configuration stays
Done ==
    /\ pc \in Terminal
    /\ pc' = "Idle"
    /\ request' = NoRequest
    /\ ResetRequestState
    /\ prevExhausted' = (searchOutcome = "limit")
    /\ UNCHANGED SEARCH_RETRY_LIMIT

\* return jsonify(...), status
Reply(resp) ==
    /\ pc' = IF resp.status = 200 THEN "Responded" ELSE "Failed"
    /\ response' = resp
    /\ nResponses' = nResponses + 1
    /\ UNCHANGED << raised, escaped >>

\* An exception reaches the outermost try
Raise(exc) ==
    /\ raised' = exc
    /\ pc' = "Failed"
    /\ IF OuterCatches(exc)
       THEN /\ response' = OuterExcept(exc)
            /\ nResponses' = nResponses + 1
            /\ escaped' = FALSE
       ELSE /\ escaped' = TRUE
            /\ UNCHANGED << response, nResponses >>

\* Parsing and validation, up to "if not text"
Validate ==
    /\ pc = "Received"
    /\ \E out \in GetJsonOutcomes(request) :
         IF out.raises
         THEN Raise(out.exc) /\ UNCHANGED reqVars
         ELSE IF ~Truthy(out.data)
         THEN Reply(ErrorResponse(400, InvalidJsonMsg)) /\ UNCHANGED reqVars
         ELSE IF ~HasGet(out.data)
         THEN Raise("AttributeError") /\ UNCHANGED reqVars
         ELSE LET content == DictGet(out.data.v, "content", JStr(<<>>))
                  md == DictGet(out.data.v, "metadata", JObj(<<>>))
              IN IF ~HasStrip(content)
                 THEN Raise("AttributeError") /\ UNCHANGED reqVars
                 ELSE IF preprocess_text(content.v) = <<>>
                 THEN /\ Reply(ErrorResponse(400, NoContentMsg))
                      /\ text' = preprocess_text(content.v)
                      /\ metadata' = md
                      /\ UNCHANGED << llmCalls, llmOutcome, summary,
                                      retry_count, searchLog, searchOutcome,
                                      payload, alternative_sources >>
                 ELSE /\ pc' = "Validated"
                      /\ text' = preprocess_text(content.v)
                      /\ metadata' = md
                      /\ UNCHANGED << llmCalls, llmOutcome, summary,
                                      retry_count, searchLog, searchOutcome,
                                      payload, alternative_sources, raised,
                                      escaped, nResponses, response >>
    /\ UNCHANGED << SEARCH_RETRY_LIMIT, prevExhausted, request >>

\* Variant: a failed summarizer call is attempted a second time
Summarize_Retry(o) ==
    /\ pc = "Validated"
    /\ llmCalls' = llmCalls + 1
    /\ llmOutcome' = o
    /\ LET r == summarize_text(o) IN
         IF r.ok
         THEN /\ summary' = r.summary
              /\ pc' = "Summarized"
              /\ UNCHANGED << raised, escaped, nResponses, response >>
         ELSE IF llmCalls = 0
         THEN UNCHANGED << pc, summary, raised, escaped, nResponses, response >>
         ELSE /\ Reply(ErrorResponse(500, SummarizeFailedMsg))
              /\ UNCHANGED summary
    /\ UNCHANGED << SEARCH_RETRY_LIMIT, prevExhausted, request, text, metadata, retry_count,
                    searchLog, searchOutcome, payload, alternative_sources >>

\* The summarizer call and the handler's reaction to its failure
Summarize(o) ==
    /\ pc = "Validated"
    /\ llmCalls' = llmCalls + 1
    /\ llmOutcome' = o
    /\ LET r == summarize_text(o) IN
         IF r.ok
         THEN /\ summary' = r.summary
              /\ pc' = "Summarized"
              /\ UNCHANGED << raised, escaped, nResponses, response >>
         ELSE /\ Reply(ErrorResponse(500, SummarizeFailedMsg))
              /\ UNCHANGED summary
    /\ UNCHANGED << SEARCH_RETRY_LIMIT, prevExhausted, request, text, metadata, retry_count,
                    searchLog, searchOutcome, payload, alternative_sources >>

\* Variant: the search is queried with the normalized content
SearchQuery_Text == text

\* The query the handler passes to search_alternative_sources
SearchQuery == summary

\* search_alternative_sources entered with the limit reached: returns []
SearchLimitReached ==
    /\ pc = "Summarized"
    /\ RetryLimitReached(retry_count, SEARCH_RETRY_LIMIT)
    /\ searchOutcome' = "limit"
    /\ alternative_sources' = <<>>
    /\ pc' = "Searched"
    /\ UNCHANGED << SEARCH_RETRY_LIMIT, prevExhausted, request, text, metadata, llmCalls,
                    llmOutcome, summary, retry_count, searchLog, payload,
                    raised, escaped, nResponses, response >>

\* Variant: the recursive call passes retry_count on unchanged
SearchFail_NoIncrement ==
    /\ pc = "Summarized"
    /\ ~RetryLimitReached(retry_count, SEARCH_RETRY_LIMIT)
    /\ searchLog' = Append(searchLog, SearchQuery)
    /\ UNCHANGED << SEARCH_RETRY_LIMIT, prevExhausted, pc, request, text, metadata, llmCalls,
                    llmOutcome, summary, retry_count, searchOutcome, payload,
                    alternative_sources, raised, escaped, nResponses,
                    response >>

\* A search request fails with a requests.RequestException: recurse
SearchFail ==
    /\ pc = "Summarized"
    /\ ~RetryLimitReached(retry_count, SEARCH_RETRY_LIMIT)
    /\ searchLog' = Append(searchLog, SearchQuery)
    /\ retry_count' = retry_count + 1
    /\ UNCHANGED << SEARCH_RETRY_LIMIT, prevExhausted, pc, request, text, metadata, llmCalls,
                    llmOutcome, summary, searchOutcome, payload,
                    alternative_sources, raised, escaped, nResponses,
                    response >>

\* Variant: the success branch falls through into the retry
SearchOk_NoReturn(p) ==
    /\ pc = "Summarized"
    /\ ~RetryLimitReached(retry_count, SEARCH_RETRY_LIMIT)
    /\ searchLog' = Append(searchLog, SearchQuery)
    /\ payload' = p
    /\ searchOutcome' = "ok"
    /\ alternative_sources' = unique_links(Links(ResultList(p)))
    /\ retry_count' = retry_count + 1
    /\ UNCHANGED << SEARCH_RETRY_LIMIT, prevExhausted, pc, request, text, metadata, llmCalls,
                    llmOutcome, summary, raised, escaped, nResponses,
                    response >>

\* A search request succeeds: build the links and deduplicate them
SearchOk(p) ==
    /\ pc = "Summarized"
    /\ ~RetryLimitReached(retry_count, SEARCH_RETRY_LIMIT)
    /\ searchLog' = Append(searchLog, SearchQuery)
    /\ payload' = p
    /\ searchOutcome' = "ok"
    /\ alternative_sources' = unique_links(Links(ResultList(p)))
    /\ pc' = "Searched"
    /\ UNCHANGED << SEARCH_RETRY_LIMIT, prevExhausted, request, text, metadata, llmCalls,
                    llmOutcome, summary, retry_count, raised, escaped,
                    nResponses, response >>

\* Variant: the retry clause catches every exception, not only
\* requests.RequestException
SearchMalformed_Retried ==
    /\ pc = "Summarized"
    /\ ~RetryLimitReached(retry_count, SEARCH_RETRY_LIMIT)
    /\ searchLog' = Append(searchLog, SearchQuery)
    /\ searchOutcome' = "malformed"
    /\ retry_count' = retry_count + 1
    /\ UNCHANGED << SEARCH_RETRY_LIMIT, prevExhausted, pc, request, text, metadata, llmCalls,
                    llmOutcome, summary, payload, alternative_sources, raised,
                    escaped, nResponses, response >>

\* Variant: the search call is not wrapped in its own try, so the exception
\* reaches the outermost clause
SearchMalformed_Fatal ==
    /\ pc = "Summarized"
    /\ ~RetryLimitReached(retry_count, SEARCH_RETRY_LIMIT)
    /\ searchLog' = Append(searchLog, SearchQuery)
    /\ searchOutcome' = "malformed"
    /\ Raise("AttributeError")
    /\ UNCHANGED << SEARCH_RETRY_LIMIT, prevExhausted, request, text, metadata, llmCalls,
                    llmOutcome, summary, retry_count, payload,
                    alternative_sources >>

\* A search response of the wrong shape raises another exception, which
\* leaves search_alternative_sources; the handler substitutes []
SearchMalformed ==
    /\ pc = "Summarized"
    /\ ~RetryLimitReached(retry_count, SEARCH_RETRY_LIMIT)
    /\ searchLog' = Append(searchLog, SearchQuery)
    /\ searchOutcome' = "malformed"
    /\ alternative_sources' = <<>>
    /\ pc' = "Searched"
    /\ UNCHANGED << SEARCH_RETRY_LIMIT, prevExhausted, request, text, metadata, llmCalls,
                    llmOutcome, summary, retry_count, payload, raised,
                    escaped, nResponses, response >>

\* Metadata sanitation and the 200 response
Respond ==
    /\ pc = "Searched"
    /\ Reply(OkResponse(summary, SanitizeMetadata(metadata),
                        alternative_sources))
    /\ UNCHANGED << SEARCH_RETRY_LIMIT, prevExhausted, request >>
    /\ UNCHANGED reqVars

Next ==
    \/ \E req \in Requests : Receive(req)
    \/ Validate
    \/ \E o \in LlmOutcomes : Summarize(o)
    \/ SearchLimitReached
    \/ SearchFail
    \/ \E p \in SearchPayloads : SearchOk(p)
    \/ SearchMalformed
    \/ Respond
    \/ Done

Spec == Init /\ [][Next]_vars

\* One step of search_alternative_sources, whatever the search API answers
SearchStep ==
    \/ SearchLimitReached
    \/ SearchFail
    \/ \E p \in SearchPayloads : SearchOk(p)
    \/ SearchMalformed

\* The handler runs to completion: each of its steps is taken once it can
\* be, every outbound call returning or failing
Fairness ==
    /\ WF_vars(Validate)
    /\ WF_vars(\E o \in LlmOutcomes : Summarize(o))
    /\ WF_vars(SearchStep)
    /\ WF_vars(Respond)

FairSpec == Init /\ [][Next]_vars /\ Fairness

\* ============================================================== claims
\* The content value of the request body, when the body is a JSON object
RequestContent == DictGet(request.value.v, "content", JStr(<<>>))

\* The body is a JSON object whose content is a text that is non-empty
\* after normalization
ValidRequest ==
    /\ request.kind = "json"
    /\ request.value.t = "obj"
    /\ RequestContent.t = "str"
    /\ Strip(RequestContent.v) # <<>>

\* The LLM call of this request returned a text that is non-empty when trimmed
SummarizerSucceeded ==
    /\ llmCalls = 1
    /\ llmOutcome.kind = "text"
    /\ Strip(llmOutcome.text) # <<>>

\* The LLM call of this request failed, or returned a blank text
SummarizerFailed ==
    /\ llmCalls = 1
    /\ \/ llmOutcome.kind \in {"apierror", "malformed"}
       \/ llmOutcome.kind = "text" /\ Strip(llmOutcome.text) = <<>>

Urls(seq) == {seq[i].url : i \in 1..Len(seq)}

\* C1: a valid request whose summarizer call succeeded is never failed: it
\* ends in a 200 response carrying that summary, and when the search ended
\* through exhausted retries or an exception, alternative_sources is empty.
C1_SearchFailureNeverFailsRequest ==
    (ValidRequest /\ SummarizerSucceeded) =>
        /\ pc # "Failed"
        /\ pc = "Responded" =>
             /\ response.status = 200
             /\ response.error = ""
             /\ response.summary = Strip(llmOutcome.text)
             /\ searchOutcome \in {"limit", "malformed"} =>
                  response.alternative_sources = <<>>

\* C1 witness: every attempt failed at transport level, twice or more, and
\* the request was answered
C1_Witness ==
    /\ pc = "Responded"
    /\ searchOutcome = "limit"
    /\ SEARCH_RETRY_LIMIT >= 2
    /\ Len(searchLog) = SEARCH_RETRY_LIMIT
    /\ response.status = 200

\* C2: one query never causes more than SEARCH_RETRY_LIMIT search requests
\* (none when the limit is 0), and reaching the limit yields the empty list
\* without any error.
C2_RequestsBoundedByRetryLimit ==
    /\ Len(searchLog) <= SEARCH_RETRY_LIMIT
    /\ searchOutcome = "limit" =>
         /\ alternative_sources = <<>>
         /\ raised = "none"
         /\ ~escaped
         /\ pc \in {"Searched", "Responded"}

\* C2 witness: the limit was reached after exactly SEARCH_RETRY_LIMIT requests
C2_Witness ==
    /\ pc = "Searched"
    /\ searchOutcome = "limit"
    /\ SEARCH_RETRY_LIMIT > 0
    /\ Len(searchLog) = SEARCH_RETRY_LIMIT

\* Index of the first item of results with the given url
FirstIndex(results, url) ==
    CHOOSE j \in 1..Len(results) :
        /\ results[j].url = url
        /\ \A k \in 1..(j - 1) : results[k].url # url

\* C3: after a successful search response, the entry kept for a url has the
\* title and snippet of the first item with that url, and the entries are in
\* the order of first occurrence.
C3_FirstOccurrenceKept ==
    (searchOutcome = "ok") =>
        LET results == ResultList(payload)
            kept == alternative_sources
        IN /\ \A i \in 1..Len(kept) :
                /\ kept[i].url \in Urls(results)
                /\ kept[i].title = results[FirstIndex(results, kept[i].url)].name
                /\ kept[i].snippet =
                       results[FirstIndex(results, kept[i].url)].snippet
           /\ \A i1, i2 \in 1..Len(kept) :
                i1 < i2 => FirstIndex(results, kept[i1].url)
                             < FirstIndex(results, kept[i2].url)

\* C4: a 200 response never lists one url twice (None counting as one url),
\* and after a successful search response it lists exactly the urls of the
\* provider's result list.
C4_NoDuplicateUrls ==
    (pc = "Responded" /\ response.status = 200) =>
        LET srcs == response.alternative_sources IN
        /\ \A i1, i2 \in 1..Len(srcs) :
              srcs[i1].url = srcs[i2].url => i1 = i2
        /\ searchOutcome = "ok" => Urls(srcs) = Urls(ResultList(payload))

\* C4 witness: a result list of two items whose url is missing, answered
\* with one entry
C4_Witness ==
    /\ pc = "Responded"
    /\ searchOutcome = "ok"
    /\ Len(ResultList(payload)) = 2
    /\ Cardinality({i \in 1..2 : ResultList(payload)[i].url = None}) = 2
    /\ Len(response.alternative_sources) = 1

\* The content field of a JSON object body is absent, empty or blank
BlankContent ==
    /\ request.kind = "json"
    /\ request.value.t = "obj"
    /\ RequestContent.t = "str"
    /\ Strip(RequestContent.v) = <<>>

\* C5: a parseable body whose content is absent, empty or blank is answered
\* 400 "No content provided", the empty object included.
C5_BlankContentIsNoContent ==
    (pc \in Terminal /\ BlankContent) =>
        response = ErrorResponse(400, NoContentMsg)

\* C6: a body that is not parseable JSON is answered 400 "Invalid or missing
\* JSON body", never 500.
C6_UnparseableIsInvalidJson ==
    (pc \in Terminal /\ request.kind \in {"badjson", "nomime"}) =>
        /\ nResponses = 1
        /\ response = ErrorResponse(400, InvalidJsonMsg)

\* C7: when the summarizer call of a valid request fails, the request is
\* Failed with 500 "Failed to summarize content" and no search request is
\* ever issued for it.
C7_SummarizerFailureAborts ==
    (ValidRequest /\ SummarizerFailed) =>
        /\ pc = "Failed"
        /\ response = ErrorResponse(500, SummarizeFailedMsg)
        /\ searchLog = <<>>
        /\ searchOutcome = "none"

\* C7 witness: the model answered with a blank text
C7_Witness ==
    /\ pc = "Failed"
    /\ ValidRequest
    /\ llmCalls = 1
    /\ llmOutcome = [kind |-> "text", text |-> <<" ">>]

\* The raw metadata of the request body; Absent when the key is missing
Absent == [t |-> "absent", v |-> 0]
RequestMetadata == DictGet(request.value.v, "metadata", Absent)

\* C8: for a valid request, status, error and summary are a function of the
\* summarizer outcome alone, whatever the metadata; the response metadata is
\* the supplied mapping, and {} when metadata is absent or not a mapping.
C8_MetadataNeverChangesOutcome ==
    (pc \in Terminal /\ ValidRequest) =>
        /\ SummarizerSucceeded =>
             /\ response.status = 200
             /\ response.summary = Strip(llmOutcome.text)
             /\ response.metadata =
                   IF RequestMetadata.t = "obj"
                   THEN RequestMetadata ELSE JObj(<<>>)
        /\ SummarizerFailed =>
             response = ErrorResponse(500, SummarizeFailedMsg)
        /\ SummarizerSucceeded \/ SummarizerFailed

\* C8 witness: metadata supplied as a list, answered 200 with metadata {}
C8_Witness ==
    /\ pc = "Responded"
    /\ ValidRequest
    /\ RequestMetadata.t = "list"
    /\ response.status = 200
    /\ response.metadata = JObj(<<>>)

\* C9: a search request is issued only after the summarizer call of the
\* request has succeeded, and its query is the summary that call returned.
C9_SearchAfterSummaryWithSummaryAsQuery ==
    /\ pc \in {"Idle", "Received", "Validated"} => searchLog = <<>>
    /\ searchLog # <<>> =>
         /\ SummarizerSucceeded
         /\ \A i \in 1..Len(searchLog) : searchLog[i] = Strip(llmOutcome.text)

\* C9 witness: two search requests issued for a summary that differs from
\* the request's content
C9_Witness ==
    /\ Len(searchLog) >= 2
    /\ summary # text
    /\ llmOutcome.text # summary

\* C10: every request ends with exactly one response and no exception leaves
\* the handler; an exception raised outside the summarizer and search calls
\* (a truthy body that is not an object, a content that is not a text, a
\* parser that raises) is answered 500 "An unexpected error occurred".
C10_OneResponseAndSafetyNet ==
    /\ ~escaped
    /\ nResponses = IF pc \in Terminal THEN 1 ELSE 0
    /\ pc \in Terminal => response # NoResponse
    /\ raised # "none" =>
         /\ pc = "Failed"
         /\ response = ErrorResponse(500, UnexpectedMsg)
    /\ (pc \in Terminal /\ request.kind = "json") =>
         /\ (Truthy(request.value) /\ request.value.t # "obj") =>
               response = ErrorResponse(500, UnexpectedMsg)
         /\ (Truthy(request.value) /\ request.value.t = "obj"
               /\ RequestContent.t # "str") =>
               response = ErrorResponse(500, UnexpectedMsg)

\* C10 witness: an object body whose content is not a text
C10_Witness ==
    /\ pc = "Failed"
    /\ raised = "AttributeError"
    /\ request.value.t = "obj"
    /\ RequestContent.t = "num"
    /\ nResponses = 1


\* The status/message pairs of the error responses
ErrorPairs ==
    { <<400, InvalidJsonMsg>>, <<400, NoContentMsg>>,
      <<500, SummarizeFailedMsg>>, <<500, UnexpectedMsg>> }

\* C11: every response is a 200 carrying summary, metadata mapping and
\* alternative_sources, or one of the four fixed status/message pairs; an
\* error body is the fixed message only, never a text of the exception.
C11_ResponsesAreTheDocumentedOnes ==
    pc \in Terminal =>
        \/ /\ response.status = 200
           /\ pc = "Responded"
           /\ response.error = ""
           /\ response.metadata.t = "obj"
        \/ /\ <<response.status, response.error>> \in ErrorPairs
           /\ pc = "Failed"
           /\ response = ErrorResponse(response.status, response.error)
           /\ response.error \notin ExceptionClasses

\* C11 witness: the parser raised and the body carries the generic message
C11_Witness ==
    /\ pc = "Failed"
    /\ raised = "BadRequest"
    /\ response.status = 500
    /\ response.error = UnexpectedMsg

\* C12: the summary of a 200 response is non-empty, already trimmed, and is
\* the trimmed model output; a blank model output never leads to a 200.
C12_SummaryIsTrimmedModelOutput ==
    /\ pc = "Responded" =>
         /\ llmOutcome.kind = "text"
         /\ response.summary # <<>>
         /\ response.summary = Strip(llmOutcome.text)
         /\ Strip(response.summary) = response.summary
    /\ (llmOutcome.kind = "text" /\ Strip(llmOutcome.text) = <<>>) =>
         /\ pc = "Failed"
         /\ response.status # 200

\* C12 witness: a model output with blanks around it, answered trimmed
C12_Witness ==
    /\ pc = "Responded"
    /\ llmOutcome.text = <<" ", "a", " ">>
    /\ response.summary = <<"a">>

\* C13: at most one LLM call is issued per request, none before validation
\* has passed, and a failed call ends the request at once.
C13_SummarizerNeverRetried ==
    /\ llmCalls <= 1
    /\ pc \in {"Idle", "Received", "Validated"} => llmCalls = 0
    /\ SummarizerFailed =>
         /\ pc = "Failed"
         /\ response = ErrorResponse(500, SummarizeFailedMsg)

\* C13 witness: the one LLM call failed with an API error
C13_Witness ==
    /\ pc = "Failed"
    /\ llmCalls = 1
    /\ llmOutcome.kind = "apierror"
    /\ response.error = SummarizeFailedMsg


FromItem(entry, item) ==
    /\ entry.title = item.name
    /\ entry.url = item.url
    /\ entry.snippet = item.snippet

\* C15: when attempt k succeeds after k-1 failures, exactly k requests have
\* been issued, the search is over, and the list returned is made of items
\* of that response alone.
C15_StopsAtFirstSuccess ==
    searchOutcome = "ok" =>
        /\ Len(searchLog) = retry_count + 1
        /\ Len(searchLog) <= SEARCH_RETRY_LIMIT
        /\ pc \in {"Searched", "Responded"}
        /\ \A i \in 1..Len(alternative_sources) :
              \E j \in 1..Len(ResultList(payload)) :
                  FromItem(alternative_sources[i], ResultList(payload)[j])
        /\ Urls(alternative_sources) = Urls(ResultList(payload))
        /\ pc = "Responded" =>
              response.alternative_sources = alternative_sources

\* C15 witness: the third attempt succeeded and gave two sources
C15_Witness ==
    /\ pc = "Responded"
    /\ searchOutcome = "ok"
    /\ retry_count = 2
    /\ Len(searchLog) = 3
    /\ Len(response.alternative_sources) = 2

\* The request cannot pass validation: no parseable body, or a JSON object
\* whose content is absent or blank
ValidationFails ==
    \/ request.kind \in {"badjson", "nomime"}
    \/ BlankContent

\* C16: a request that fails validation, and any request answered 400,
\* causes no LLM call and no search request.
C16_NoOutboundCallOnValidationFailure ==
    (ValidationFails \/ response.status = 400) =>
        /\ pc \in {"Received", "Failed"}
        /\ llmCalls = 0
        /\ llmOutcome = NoLlmOutcome
        /\ searchLog = <<>>
        /\ searchOutcome = "none"

\* C16 witness: a content of one blank, answered 400
C16_Witness ==
    /\ pc = "Failed"
    /\ BlankContent
    /\ RequestContent.v = <<" ">>
    /\ response = ErrorResponse(400, NoContentMsg)


\* C17: every accepted request eventually reaches Responded or Failed, and a
\* failed search request that is retried raises the retry count by exactly
\* one, never beyond SEARCH_RETRY_LIMIT.
C17_SearchTerminates ==
    /\ (pc = "Received") ~> (pc \in Terminal)
    /\ (pc = "Summarized") ~> (pc = "Searched")
    /\ [][(pc = "Summarized" /\ pc' = "Summarized") =>
             /\ retry_count' = retry_count + 1
             /\ retry_count' <= SEARCH_RETRY_LIMIT]_vars

\* C17 witness: the search ended after three failures in a row
C17_Witness ==
    /\ pc = "Searched"
    /\ searchOutcome = "limit"
    /\ retry_count = SEARCH_RETRY_LIMIT
    /\ retry_count >= 3


\* The locals of the handler are as they are before any request
FreshLocals ==
    /\ request = NoRequest
    /\ text = <<>>
    /\ metadata = JNull
    /\ llmCalls = 0
    /\ llmOutcome = NoLlmOutcome
    /\ summary = <<>>
    /\ retry_count = 0
    /\ searchLog = <<>>
    /\ searchOutcome = "none"
    /\ payload = NoPayload
    /\ alternative_sources = <<>>
    /\ nResponses = 0
    /\ response = NoResponse

\* The 200 response as a function of the request body and of what the two
\* external APIs answered
ExpectedOkResponse ==
    OkResponse(Strip(llmOutcome.text),
               IF RequestMetadata.t = "obj" THEN RequestMetadata ELSE JObj(<<>>),
               IF searchOutcome = "ok"
               THEN unique_links(Links(ResultList(payload))) ELSE <<>>)

\* C18: no step changes SEARCH_RETRY_LIMIT; between requests the handler
\* holds nothing of the last one; every request starts its search with a
\* retry count of 0, so retries are exhausted only after the full
\* SEARCH_RETRY_LIMIT requests, also after a request that exhausted them;
\* and a 200 response is determined by the body and the API answers alone.
C18_NoStateAcrossRequests ==
    /\ [][SEARCH_RETRY_LIMIT' = SEARCH_RETRY_LIMIT]_vars
    /\ [](pc = "Idle" => FreshLocals)
    /\ [](pc \in {"Received", "Validated"} =>
            (retry_count = 0 /\ searchLog = <<>> /\ searchOutcome = "none"))
    /\ [](searchOutcome = "limit" => Len(searchLog) = SEARCH_RETRY_LIMIT)
    /\ [](pc = "Responded" => response = ExpectedOkResponse)

\* C18 witness: the request after one that exhausted its retries has itself
\* made the full number of search requests
C18_Witness ==
    /\ prevExhausted
    /\ pc = "Responded"
    /\ searchOutcome = "limit"
    /\ SEARCH_RETRY_LIMIT >= 2
    /\ Len(searchLog) = SEARCH_RETRY_LIMIT

====
